---- MODULE Spec2Model ----
(***************************************************************************)
(* Verification model of tkinter-a11y-lint:                                *)
(*   - the pylint checker TkinterA11yChecker (tkinter_a11y_lint/plugin.py) *)
(*     driven by the host's tree walker, one handler call per step;        *)
(*   - the WCAG contrast functions (wcag_contrast_checker.py) and the      *)
(*     colour analysis of test_contrast_integration.py, in fixed point.    *)
(***************************************************************************)
EXTENDS Integers, Sequences, FiniteSets, TLC

(***************************************************************************)
(* Bounds of the model.                                                    *)
(***************************************************************************)
\* longest keyword list written at a call site
MaxKeywords == 3

VARIABLES
    tkinter_imports,   \* self.tkinter_imports
    created_windows,   \* self.created_windows
    titled_windows,    \* self.titled_windows
    messages,          \* diagnostics added for the statement being walked
    todo,              \* nodes of the current statement still to be visited
    site,              \* the Call node visit_call was last invoked on
    file,              \* the file being analysed by the host
    call,              \* last call of a contrast function: name and arguments
    ret                \* what that call returned or raised

linter_vars == <<tkinter_imports, created_windows, titled_windows, messages,
                 todo, site, file>>
color_vars == <<call, ret>>
vars == <<tkinter_imports, created_windows, titled_windows, messages,
          todo, site, file, call, ret>>

(***************************************************************************)
(* Python values.                                                          *)
(***************************************************************************)
\* Python's None, as the alias of an import without "as"
None == ""

\* a Python str is the sequence of its characters
Contains(str, ch) == \E i \in 1..Len(str) : str[i] = ch

(***************************************************************************)
(* Class constants of TkinterA11yChecker.                                  *)
(***************************************************************************)
TEXT_REQUIRED_WIDGETS ==
    {"Button", "Label", "Checkbutton", "Radiobutton", "Menubutton"}

TAB_INDEX_WIDGETS ==
    {"Button", "Entry", "Text", "Listbox", "Scrollbar", "Scale",
     "Checkbutton", "Radiobutton", "Menubutton", "Canvas"}

WINDOW_WIDGETS == {"Tk", "Toplevel"}

ACCELERATOR_WIDGETS == {"Button", "Menubutton"}

(***************************************************************************)
(* Syntax-tree nodes handed over by the host (astroid).                    *)
(***************************************************************************)
Name(n) == [type |-> "Name", name |-> n]
Attribute(e, a) == [type |-> "Attribute", expr |-> e, attrname |-> a]
Const(pytype, v) == [type |-> "Const", pytype |-> pytype, value |-> v]
\* an f-string, one of its {...} fields, and a binary operation
JoinedStr(vs) == [type |-> "JoinedStr", values |-> vs]
FormattedValue(v) == [type |-> "FormattedValue", value |-> v]
BinOp(op, l, r) == [type |-> "BinOp", op |-> op, left |-> l, right |-> r]
Keyword(a, v) == [arg |-> a, value |-> v]
Call(f, kws) == [type |-> "Call", func |-> f, keywords |-> kws]
AssignName(n) == [type |-> "AssignName", name |-> n]
AssignAttr(e, a) == [type |-> "AssignAttr", expr |-> e, attrname |-> a]
Assign(t, v) == [type |-> "Assign", targets |-> <<t>>, value |-> v]
Expr(v) == [type |-> "Expr", value |-> v]
Import(ns) == [type |-> "Import", names |-> ns]
ImportFrom(m, ns) == [type |-> "ImportFrom", modname |-> m, names |-> ns]
NoNode == [type |-> "NoNode"]
\* the host leaving a statement (the checker has no leave_* handler)
EndOfStatement == [type |-> "EndOfStatement"]

(***************************************************************************)
(* The checker's helpers.                                                  *)
(***************************************************************************)
\* alias or name
AliasOr(alias, name) == IF alias = None THEN name ELSE alias

_is_tkinter_widget_call(node) ==
    IF node.func.type = "Attribute"
    THEN IF node.func.expr.type = "Name"
         THEN node.func.expr.name \in tkinter_imports
         ELSE FALSE
    ELSE IF node.func.type = "Name"
         THEN node.func.name \in tkinter_imports
         ELSE FALSE

_get_widget_name(node) ==
    IF node.func.type = "Attribute" THEN node.func.attrname
    ELSE IF node.func.type = "Name" THEN node.func.name
    ELSE ""

HasKeyword(node, attrs) ==
    \E i \in 1..Len(node.keywords) : node.keywords[i].arg \in attrs

\* the text test not counting the keyword text itself
_has_text_attribute_title_or_label(node) == HasKeyword(node, {"title", "label"})

_has_text_attribute(node) == HasKeyword(node, {"text", "title", "label"})

_has_tab_index(node) == HasKeyword(node, {"takefocus", "tabindex"})

\* isinstance(value, Const) and isinstance(value.value, str) and "&" in it
IsAmpersandLiteral(value) ==
    /\ value.type = "Const"
    /\ value.pytype = "str"
    /\ Contains(value.value, "&")

TextHasAmpersand(node) ==
    \E i \in 1..Len(node.keywords) :
        /\ node.keywords[i].arg = "text"
        /\ IsAmpersandLiteral(node.keywords[i].value)

\* the accelerator test with the underline keyword left out
_has_text_but_no_accelerator_no_underline(node) ==
    HasKeyword(node, {"text"}) /\ ~TextHasAmpersand(node)

_has_text_but_no_accelerator(node) ==
    LET has_text == HasKeyword(node, {"text"})
        has_underline == HasKeyword(node, {"underline"})
        text_has_ampersand == TextHasAmpersand(node)
    IN  has_text /\ ~(text_has_ampersand /\ has_underline)

\* the mnemonic test with any text that is not a plain literal taken as
\* marked
_has_mnemonic_but_no_underline_any_text(node) ==
    /\ \E i \in 1..Len(node.keywords) :
          /\ node.keywords[i].arg = "text"
          /\ \/ IsAmpersandLiteral(node.keywords[i].value)
             \/ node.keywords[i].value.type # "Const"
    /\ ~HasKeyword(node, {"underline"})

_has_mnemonic_but_no_underline(node) ==
    LET has_mnemonic == TextHasAmpersand(node)
        has_underline == HasKeyword(node, {"underline"})
    IN  has_mnemonic /\ ~has_underline

(***************************************************************************)
(* The five rules; each returns the messages it adds.                      *)
(***************************************************************************)
Message(msgid, args) == [msgid |-> msgid, args |-> args]

_check_text_attribute(node, widget_name) ==
    IF widget_name \in TEXT_REQUIRED_WIDGETS /\ ~_has_text_attribute(node)
    THEN <<Message("missing-text-attribute", <<widget_name>>)>>
    ELSE <<>>

\* the tab-index rule skipped once a text attribute is missing
_check_tab_index_after_text(node, widget_name) ==
    IF /\ widget_name \in TAB_INDEX_WIDGETS
       /\ ~_has_tab_index(node)
       /\ ~(widget_name \in TEXT_REQUIRED_WIDGETS /\ ~_has_text_attribute(node))
    THEN <<Message("missing-tab-index", <<widget_name>>)>>
    ELSE <<>>

_check_tab_index(node, widget_name) ==
    IF widget_name \in TAB_INDEX_WIDGETS /\ ~_has_tab_index(node)
    THEN <<Message("missing-tab-index", <<widget_name>>)>>
    ELSE <<>>

_check_keyboard_accelerator(node, widget_name) ==
    IF widget_name \in ACCELERATOR_WIDGETS /\ _has_text_but_no_accelerator(node)
    THEN <<Message("missing-keyboard-accelerator", <<widget_name>>)>>
    ELSE <<>>

\* the window-title rule consulting the titled set
_check_window_title_unless_titled(node, widget_name) ==
    IF widget_name \in WINDOW_WIDGETS /\ titled_windows = {}
    THEN <<Message("missing-window-title", <<>>)>>
    ELSE <<>>

_check_window_title(node, widget_name) ==
    IF widget_name \in WINDOW_WIDGETS
    THEN <<Message("missing-window-title", <<>>)>>
    ELSE <<>>

_check_mnemonic_underline(node, widget_name) ==
    IF widget_name = "Label" /\ _has_mnemonic_but_no_underline(node)
    THEN <<Message("missing-mnemonic-underline", <<widget_name>>)>>
    ELSE <<>>

(***************************************************************************)
(* The handlers, as functions of the node they are invoked on.             *)
(***************************************************************************)
\* names a "from <modname> import ..." node adds to tkinter_imports
ImportFromBindings(node) ==
    IF node.modname = "tkinter"
    THEN {AliasOr(node.names[i][2], node.names[i][1]) :
             i \in 1..Len(node.names)}
    ELSE {}

\* names an "import ..." node adds to tkinter_imports
ImportBindings(node) ==
    {AliasOr(node.names[i][2], "tkinter") :
        i \in {j \in 1..Len(node.names) : node.names[j][1] = "tkinter"}}

\* messages visit_call adds for a Call node
CallMessages(node) ==
    IF ~_is_tkinter_widget_call(node) THEN <<>>
    ELSE LET widget_name == _get_widget_name(node)
         IN  IF widget_name = "" THEN <<>>
             ELSE _check_text_attribute(node, widget_name)
                  \o _check_tab_index(node, widget_name)
                  \o _check_keyboard_accelerator(node, widget_name)
                  \o _check_window_title(node, widget_name)
                  \o _check_mnemonic_underline(node, widget_name)

\* window variables visit_assign records for an Assign node
AssignedWindows(node) ==
    IF /\ node.value.type = "Call"
       /\ _is_tkinter_widget_call(node.value)
       /\ _get_widget_name(node.value) \in WINDOW_WIDGETS
       /\ Len(node.targets) > 0
       /\ node.targets[1].type = "AssignName"
    THEN {node.targets[1].name}
    ELSE {}

\* window variables visit_attribute marks as titled for an Attribute node
TitledWindows(node) ==
    IF /\ node.attrname = "title"
       /\ node.expr.type = "Name"
       /\ node.expr.name \in created_windows
    THEN {node.expr.name}
    ELSE {}

(***************************************************************************)
(* Source files the host is run on: the statements a file is made of.      *)
(***************************************************************************)
AllWidgets ==
    TEXT_REQUIRED_WIDGETS \cup TAB_INDEX_WIDGETS \cup WINDOW_WIDGETS
        \cup {"Frame"}

WindowVars == {"root", "win"}

\* "OK", "&OK", a variable, f"&{caption}", "&" + caption, 0, True
PlainText == Const("str", <<"O", "K">>)
AmpersandText == Const("str", <<"&", "O", "K">>)
VariableText == Name("caption")
FStringText ==
    JoinedStr(<<Const("str", <<"&">>), FormattedValue(Name("caption"))>>)
ConcatText == BinOp("+", Const("str", <<"&">>), Name("caption"))
IntLiteral == Const("int", <<"0">>)
BoolLiteral == Const("bool", <<"T", "r", "u", "e">>)

KeywordPool ==
    {Keyword("text", PlainText), Keyword("text", AmpersandText),
     Keyword("text", VariableText), Keyword("text", FStringText),
     Keyword("text", ConcatText), Keyword("takefocus", BoolLiteral),
     Keyword("underline", IntLiteral), Keyword("label", PlainText)}

\* Python rejects a call that repeats a keyword
KeywordLists ==
    {kws \in UNION {[1..n -> KeywordPool] : n \in 0..MaxKeywords} :
        \A i, j \in 1..Len(kws) : i # j => kws[i].arg # kws[j].arg}

\* tk.W, ttk.W, tkinter.ttk.W, root.Button, W, B, tk, print
WidgetFuncs ==
    {Attribute(Name("tk"), w) : w \in AllWidgets}
        \cup {Attribute(Name("ttk"), w) : w \in {"Button", "Label"}}
        \cup {Attribute(Attribute(Name("tkinter"), "ttk"), "Button"),
              Attribute(Name("root"), "Button")}
        \cup {Name(w) : w \in AllWidgets \cup {"B", "tk", "print"}}

\* root.title, win.title, root.winfo.title
TitleFuncs ==
    {Attribute(Name(v), "title") : v \in WindowVars}
        \cup {Attribute(Attribute(Name("root"), "winfo"), "title")}

Calls ==
    {Call(f, kws) : f \in WidgetFuncs, kws \in KeywordLists}
        \cup {Call(f, <<>>) : f \in TitleFuncs}

Targets ==
    {AssignName(v) : v \in WindowVars} \cup {AssignAttr(Name("self"), "root")}

ImportStatements ==
    {Import(<<<<"os", None>>, <<"tkinter", "tk">>>>),
     Import(<<<<"os", "tk">>>>),
     ImportFrom("tkinter",
        <<<<"Button", None>>, <<"Label", None>>, <<"Checkbutton", None>>,
          <<"Radiobutton", None>>, <<"Menubutton", None>>, <<"Entry", None>>,
          <<"Text", None>>, <<"Listbox", None>>, <<"Scrollbar", None>>,
          <<"Scale", None>>, <<"Canvas", None>>, <<"Tk", None>>,
          <<"Toplevel", None>>, <<"Frame", None>>>>),
     ImportFrom("tkinter", <<<<"ttk", None>>, <<"Button", "B">>>>),
     ImportFrom("tkinter.ttk", <<<<"Button", None>>>>)}

Statements ==
    ImportStatements
        \cup {Expr(c) : c \in Calls}
        \cup {Assign(t, c) : t \in Targets,
                 c \in {d \in Calls : d.keywords = <<>>}}
        \cup {Assign(AssignName("root"), IntLiteral)}
        \* caption = root.title: the attribute is read, nothing is called
        \cup {Assign(AssignName("caption"), f) : f \in TitleFuncs}

IsToolkitImport(stmt) ==
    \/ stmt.type = "ImportFrom" /\ ImportFromBindings(stmt) # {}
    \/ stmt.type = "Import" /\ ImportBindings(stmt) # {}

\* the Attribute nodes below a callee, outermost first
FuncNodes(func) ==
    IF func.type = "Attribute"
    THEN IF func.expr.type = "Attribute" THEN <<func, func.expr>>
         ELSE <<func>>
    ELSE <<>>

\* the nodes of a statement the checker has a handler for, in walk order
Preorder(stmt) ==
    (IF stmt.type \in {"Import", "ImportFrom"} THEN <<stmt>>
     ELSE IF stmt.type = "Expr"
     THEN <<stmt.value>> \o FuncNodes(stmt.value.func)
     ELSE IF stmt.value.type = "Call"
     THEN <<stmt, stmt.value>> \o FuncNodes(stmt.value.func)
     ELSE <<stmt>> \o FuncNodes(stmt.value)) \o <<EndOfStatement>>

(***************************************************************************)
(* Initial state: register(linter) has constructed the one checker.        *)
(***************************************************************************)
Init ==
    /\ tkinter_imports = {}
    /\ created_windows = {}
    /\ titled_windows = {}
    /\ messages = <<>>
    /\ todo = <<>>
    /\ site = NoNode
    /\ file = [toolkit_imported |-> FALSE]
    /\ call = [op |-> "none"]
    /\ ret = [raised |-> "none"]

(***************************************************************************)
(* The host: walks one statement after the other, one file after the other,*)
(* with the checker instance register() gave it.                           *)
(***************************************************************************)
WalkStatement ==
    /\ todo = <<>>
    /\ \E stmt \in Statements :
        /\ todo' = Preorder(stmt)
        /\ file' = [file EXCEPT
                      !.toolkit_imported = @ \/ IsToolkitImport(stmt)]
    /\ UNCHANGED <<tkinter_imports, created_windows, titled_windows,
                   messages, site>>
    /\ UNCHANGED color_vars

\* the walk of the statement is over; its diagnostics go to the reporter
LeaveStatement ==
    /\ todo # <<>>
    /\ Head(todo).type = "EndOfStatement"
    /\ todo' = Tail(todo)
    /\ messages' = <<>>
    /\ site' = NoNode
    /\ UNCHANGED <<tkinter_imports, created_windows, titled_windows, file>>
    /\ UNCHANGED color_vars

\* the next file of the run: the same checker, no hook of it is called
NextFile ==
    /\ todo = <<>>
    /\ file' = [toolkit_imported |-> FALSE]
    /\ UNCHANGED <<tkinter_imports, created_windows, titled_windows,
                   messages, todo, site>>
    /\ UNCHANGED color_vars

(***************************************************************************)
(* The checker's handlers.                                                 *)
(***************************************************************************)
visit_importfrom ==
    /\ todo # <<>>
    /\ Head(todo).type = "ImportFrom"
    /\ tkinter_imports' = tkinter_imports \cup ImportFromBindings(Head(todo))
    /\ todo' = Tail(todo)
    /\ UNCHANGED <<created_windows, titled_windows, messages, site, file>>
    /\ UNCHANGED color_vars

visit_import ==
    /\ todo # <<>>
    /\ Head(todo).type = "Import"
    /\ tkinter_imports' = tkinter_imports \cup ImportBindings(Head(todo))
    /\ todo' = Tail(todo)
    /\ UNCHANGED <<created_windows, titled_windows, messages, site, file>>
    /\ UNCHANGED color_vars

visit_call ==
    /\ todo # <<>>
    /\ Head(todo).type = "Call"
    /\ messages' = messages \o CallMessages(Head(todo))
    /\ site' = Head(todo)
    /\ todo' = Tail(todo)
    /\ UNCHANGED <<tkinter_imports, created_windows, titled_windows, file>>
    /\ UNCHANGED color_vars

visit_assign ==
    /\ todo # <<>>
    /\ Head(todo).type = "Assign"
    /\ created_windows' = created_windows \cup AssignedWindows(Head(todo))
    /\ todo' = Tail(todo)
    /\ UNCHANGED <<tkinter_imports, titled_windows, messages, site, file>>
    /\ UNCHANGED color_vars

visit_attribute ==
    /\ todo # <<>>
    /\ Head(todo).type = "Attribute"
    /\ titled_windows' = titled_windows \cup TitledWindows(Head(todo))
    /\ todo' = Tail(todo)
    /\ UNCHANGED <<tkinter_imports, created_windows, messages, site, file>>
    /\ UNCHANGED color_vars

Next ==
    \/ WalkStatement
    \/ LeaveStatement
    \/ NextFile
    \/ visit_importfrom
    \/ visit_import
    \/ visit_call
    \/ visit_assign
    \/ visit_attribute

Spec == Init /\ [][Next]_vars

TypeOK ==
    /\ titled_windows \subseteq WindowVars
    /\ file.toolkit_imported \in BOOLEAN

(***************************************************************************)
(* wcag_contrast_checker.py.  A str is the sequence of its characters; a   *)
(* float is a fixed-point number (luminance) or a fraction num/den (ratio).*)
(***************************************************************************)
\* a call returns (raised is "none", and a field holds the value) or raises
Raise(e) == [raised |-> e]

UpperLetters ==
    <<"A", "B", "C", "D", "E", "F", "G", "H", "I", "J", "K", "L", "M",
      "N", "O", "P", "Q", "R", "S", "T", "U", "V", "W", "X", "Y", "Z">>

LowerLetters ==
    <<"a", "b", "c", "d", "e", "f", "g", "h", "i", "j", "k", "l", "m",
      "n", "o", "p", "q", "r", "s", "t", "u", "v", "w", "x", "y", "z">>

\* str.upper() and str.lower()
upper(str) ==
    [i \in 1..Len(str) |->
        IF \E k \in 1..26 : LowerLetters[k] = str[i]
        THEN UpperLetters[CHOOSE k \in 1..26 : LowerLetters[k] = str[i]]
        ELSE str[i]]

lower(str) ==
    [i \in 1..Len(str) |->
        IF \E k \in 1..26 : UpperLetters[k] = str[i]
        THEN LowerLetters[CHOOSE k \in 1..26 : UpperLetters[k] = str[i]]
        ELSE str[i]]

\* str.startswith(ch) for a one-character prefix
startswith(str, ch) == Len(str) > 0 /\ str[1] = ch

\* str.lstrip(ch): every leading ch is removed
RECURSIVE lstrip(_, _)
lstrip(str, ch) ==
    IF Len(str) > 0 /\ str[1] = ch THEN lstrip(Tail(str), ch) ELSE str

RECURSIVE rstrip(_, _)
rstrip(str, ch) ==
    IF Len(str) > 0 /\ str[Len(str)] = ch
    THEN rstrip(SubSeq(str, 1, Len(str) - 1), ch)
    ELSE str

Digits == <<"0", "1", "2", "3", "4", "5", "6", "7", "8", "9">>

IsHexDigit(ch) ==
    \/ \E k \in 1..10 : Digits[k] = ch
    \/ \E k \in 1..6 : LowerLetters[k] = ch \/ UpperLetters[k] = ch

HexDigitValue(ch) ==
    IF \E k \in 1..10 : Digits[k] = ch
    THEN (CHOOSE k \in 1..10 : Digits[k] = ch) - 1
    ELSE 9 + (CHOOSE k \in 1..6 : LowerLetters[k] = ch \/ UpperLetters[k] = ch)

RECURSIVE HexValue(_)
HexValue(digits) ==
    IF Len(digits) = 0 THEN 0
    ELSE 16 * HexValue(SubSeq(digits, 1, Len(digits) - 1))
         + HexDigitValue(digits[Len(digits)])

\* int(str, 16) for the two-character slices hex_to_rgb passes: surrounding
\* blanks are stripped, one sign is accepted, the rest must be hex digits
\* (a "0x" prefix or an underscore needs more than two characters)
int16(str) ==
    LET stripped == rstrip(lstrip(str, " "), " ")
        signed == Len(stripped) > 0 /\ stripped[1] \in {"+", "-"}
        digits == IF signed THEN Tail(stripped) ELSE stripped
    IN  IF Len(digits) = 0 \/ \E i \in 1..Len(digits) : ~IsHexDigit(digits[i])
        THEN Raise("ValueError")
        ELSE IF signed /\ stripped[1] = "-"
        THEN [raised |-> "none", int |-> 0 - HexValue(digits)]
        ELSE [raised |-> "none", int |-> HexValue(digits)]

hex_to_rgb(hex_color) ==
    LET stripped == lstrip(hex_color, "#")
    IN  IF Len(stripped) # 6 THEN Raise("ValueError")
        ELSE LET r == int16(SubSeq(stripped, 1, 2))
                 g == int16(SubSeq(stripped, 3, 4))
                 b == int16(SubSeq(stripped, 5, 6))
             IN  IF \/ r.raised # "none"
                    \/ g.raised # "none"
                    \/ b.raised # "none"
                 THEN Raise("ValueError")
                 ELSE [raised |-> "none", rgb |-> <<r.int, g.int, b.int>>]

\* one unit of luminance: 1.0 is Scale
Scale == 1000000

\* Scale * pow((c / 255.0 + 0.055) / 1.055, 2.4) for c = 11 .. 255
GammaTable ==
    << 3347, 3677, 4025, 4391, 4777, 5182, 5605, 6049,
       6512, 6995, 7499, 8023, 8568, 9134, 9721, 10330,
       10960, 11612, 12286, 12983, 13702, 14444, 15209, 15996,
       16807, 17642, 18500, 19382, 20289, 21219, 22174, 23153,
       24158, 25187, 26241, 27321, 28426, 29557, 30713, 31896,
       33105, 34340, 35601, 36889, 38204, 39546, 40915, 42311,
       43735, 45186, 46665, 48172, 49707, 51269, 52861, 54480,
       56128, 57805, 59511, 61246, 63010, 64803, 66626, 68478,
       70360, 72272, 74214, 76185, 78187, 80220, 82283, 84376,
       86500, 88656, 90842, 93059, 95307, 97587, 99899, 102242,
       104616, 107023, 109462, 111932, 114435, 116971, 119538, 122139,
       124772, 127438, 130136, 132868, 135633, 138432, 141263, 144128,
       147027, 149960, 152926, 155926, 158961, 162029, 165132, 168269,
       171441, 174647, 177888, 181164, 184475, 187821, 191202, 194618,
       198069, 201556, 205079, 208637, 212231, 215861, 219526, 223228,
       226966, 230740, 234551, 238398, 242281, 246201, 250158, 254152,
       258183, 262251, 266356, 270498, 274677, 278894, 283149, 287441,
       291771, 296138, 300544, 304987, 309469, 313989, 318547, 323143,
       327778, 332452, 337164, 341914, 346704, 351533, 356400, 361307,
       366253, 371238, 376262, 381326, 386429, 391572, 396755, 401978,
       407240, 412543, 417885, 423268, 428690, 434154, 439657, 445201,
       450786, 456411, 462077, 467784, 473531, 479320, 485150, 491021,
       496933, 502886, 508881, 514918, 520996, 527115, 533276, 539479,
       545724, 552011, 558340, 564712, 571125, 577580, 584078, 590619,
       597202, 603827, 610496, 617207, 623960, 630757, 637597, 644480,
       651406, 658375, 665387, 672443, 679542, 686685, 693872, 701102,
       708376, 715694, 723055, 730461, 737910, 745404, 752942, 760525,
       768151, 775822, 783538, 791298, 799103, 806952, 814847, 822786,
       830770, 838799, 846873, 854993, 863157, 871367, 879622, 887923,
       896269, 904661, 913099, 921582, 930111, 938686, 947307, 955973,
       964686, 973445, 982251, 991102, 1000000 >>

linearize_rgb_component(component) ==
    \* s_rgb <= 0.04045, with s_rgb = component / 255.0
    IF 100000 * component <= 4045 * 255
    THEN (component * 100 * Scale) \div (255 * 1292)
    ELSE GammaTable[component - 10]

\* 0.2126 * linear_r + 0.7152 * linear_g + 0.0722 * linear_b; the products
\* are taken on the quotients and remainders by 10000 to stay in 32 bits
calculate_relative_luminance(r, g, b) ==
    LET linear_r == linearize_rgb_component(r)
        linear_g == linearize_rgb_component(g)
        linear_b == linearize_rgb_component(b)
    IN  2126 * (linear_r \div 10000)
            + 7152 * (linear_g \div 10000)
            + 722 * (linear_b \div 10000)
            + (2126 * (linear_r % 10000)
                  + 7152 * (linear_g % 10000)
                  + 722 * (linear_b % 10000)) \div 10000

\* a colour argument: a str or a tuple
StrColor(chars) == [type |-> "str", chars |-> chars, rgb |-> <<>>]
TupleColor(rgb) == [type |-> "tuple", chars |-> <<>>, rgb |-> rgb]

Max(a, b) == IF a >= b THEN a ELSE b
Min(a, b) == IF a <= b THEN a ELSE b

\* isinstance(color, str): hex_to_rgb(color), else the tuple itself
ToRgb(color) ==
    IF color.type = "str" THEN hex_to_rgb(color.chars)
    ELSE [raised |-> "none", rgb |-> color.rgb]

\* the only element of a one-element set: a value that is computed once
The(S) == CHOOSE x \in S : TRUE

\* lines 118-127 on the two converted colours; the ratio
\* (l1 + 0.05) / (l2 + 0.05) is kept as the fraction num / den
RatioOfRgb(c1, c2) ==
    IF c1.raised # "none" THEN c1
    ELSE IF c2.raised # "none" THEN c2
    ELSE The({[raised |-> "none",
               ratio |-> [num |-> Max(lum1, lum2) + Scale \div 20,
                          den |-> Min(lum1, lum2) + Scale \div 20]] :
                lum1 \in {calculate_relative_luminance(
                              c1.rgb[1], c1.rgb[2], c1.rgb[3])},
                lum2 \in {calculate_relative_luminance(
                              c2.rgb[1], c2.rgb[2], c2.rgb[3])}})

calculate_contrast_ratio(color1, color2) ==
    The({RatioOfRgb(c1, c2) : c1 \in {ToRgb(color1)}, c2 \in {ToRgb(color2)}})

\* ratio >= tenths / 10, for a ratio with a positive denominator
AtLeast(ratio, tenths) == 10 * ratio.num >= tenths * ratio.den

\* round(ratio, 2), as a fraction over 100
round2(ratio) ==
    [num |-> (200 * ratio.num + ratio.den) \div (2 * ratio.den), den |-> 100]

\* the requirements applied to the rounded ratio instead
RequirementsOnRounded(contrast_ratio, large_text, level) ==
    IF contrast_ratio.raised # "none" THEN contrast_ratio
    ELSE LET aa_requirement == IF large_text THEN 30 ELSE 45
             aaa_requirement == IF large_text THEN 45 ELSE 70
             rounded == round2(contrast_ratio.ratio)
             passes_aa == AtLeast(rounded, aa_requirement)
             passes_aaa == AtLeast(rounded, aaa_requirement)
             is_aaa == upper(level) = <<"A", "A", "A">>
         IN  [raised |-> "none", result |->
                [contrast_ratio |-> rounded,
                 passes_aa |-> passes_aa,
                 passes_aaa |-> passes_aaa,
                 required_ratio |->
                     IF is_aaa THEN aaa_requirement ELSE aa_requirement,
                 meets_requirement |->
                     IF is_aaa THEN passes_aaa ELSE passes_aa,
                 level_tested |-> upper(level),
                 text_size |-> IF large_text THEN "large" ELSE "normal"]]

\* lines 158-184 on the computed ratio; thresholds and required_ratio are
\* in tenths
Requirements(contrast_ratio, large_text, level) ==
    IF contrast_ratio.raised # "none" THEN contrast_ratio
    ELSE LET aa_requirement == IF large_text THEN 30 ELSE 45
             aaa_requirement == IF large_text THEN 45 ELSE 70
             passes_aa == AtLeast(contrast_ratio.ratio, aa_requirement)
             passes_aaa == AtLeast(contrast_ratio.ratio, aaa_requirement)
             is_aaa == upper(level) = <<"A", "A", "A">>
         IN  [raised |-> "none", result |->
                [contrast_ratio |-> round2(contrast_ratio.ratio),
                 passes_aa |-> passes_aa,
                 passes_aaa |-> passes_aaa,
                 required_ratio |->
                     IF is_aaa THEN aaa_requirement ELSE aa_requirement,
                 meets_requirement |->
                     IF is_aaa THEN passes_aaa ELSE passes_aa,
                 level_tested |-> upper(level),
                 text_size |-> IF large_text THEN "large" ELSE "normal"]]

check_wcag_contrast(foreground, background, large_text, level) ==
    The({Requirements(contrast_ratio, large_text, level) :
            contrast_ratio \in
                {calculate_contrast_ratio(foreground, background)}})

get_contrast_grade(contrast_ratio, large_text) ==
    IF large_text
    THEN IF AtLeast(contrast_ratio, 45) THEN "AAA"
         ELSE IF AtLeast(contrast_ratio, 30) THEN "AA"
         ELSE "FAIL"
    ELSE IF AtLeast(contrast_ratio, 70) THEN "AAA"
         ELSE IF AtLeast(contrast_ratio, 45) THEN "AA"
         ELSE "FAIL"

(***************************************************************************)
(* test_contrast_integration.py: analyze_widget_colors.                    *)
(***************************************************************************)
\* color_map, as the set of its (key, value) items
color_map ==
    {<<<<"b", "l", "a", "c", "k">>,
       <<"#", "0", "0", "0", "0", "0", "0">>>>,
     <<<<"w", "h", "i", "t", "e">>,
       <<"#", "F", "F", "F", "F", "F", "F">>>>,
     <<<<"r", "e", "d">>,
       <<"#", "F", "F", "0", "0", "0", "0">>>>,
     <<<<"g", "r", "e", "e", "n">>,
       <<"#", "0", "0", "8", "0", "0", "0">>>>,
     <<<<"b", "l", "u", "e">>,
       <<"#", "0", "0", "0", "0", "F", "F">>>>,
     <<<<"g", "r", "a", "y">>,
       <<"#", "8", "0", "8", "0", "8", "0">>>>,
     <<<<"g", "r", "e", "y">>,
       <<"#", "8", "0", "8", "0", "8", "0">>>>,
     <<<<"S", "y", "s", "t", "e", "m", "W", "i", "n", "d", "o", "w", "T", "e", "x", "t">>,
       <<"#", "0", "0", "0", "0", "0", "0">>>>,
     <<<<"S", "y", "s", "t", "e", "m", "W", "i", "n", "d", "o", "w">>,
       <<"#", "F", "F", "F", "F", "F", "F">>>>}

\* dict.get(key, default)
get(dict, key, default) ==
    IF \E item \in dict : item[1] = key
    THEN (CHOOSE item \in dict : item[1] = key)[2]
    ELSE default

\* x or default, for a str x
Or(str, default) == IF str = <<>> THEN default ELSE str

\* lines 48-60: the grade of the reported ratio, and the returned result
Graded(fg, bg, result) ==
    IF result.raised # "none" THEN result
    ELSE [raised |-> "none", analysed |-> TRUE,
          fg |-> fg, bg |-> bg, result |-> result.result,
          grade |-> get_contrast_grade(result.result.contrast_ratio, FALSE)]

\* lines 46-60 on the resolved colours
Analysis(fg, bg) ==
    The({Graded(fg, bg, result) :
            result \in {check_wcag_contrast(StrColor(fg), StrColor(bg),
                                            FALSE, <<"A", "A">>)}})

\* widget.colored: the widget has the options fg and bg (else cget raises
\* tk.TclError, which is caught); widget.fg, widget.bg: what cget returns
analyze_widget_colors(widget) ==
    IF ~widget.colored THEN [raised |-> "none", analysed |-> FALSE]
    ELSE
    LET fg0 == Or(widget.fg, <<"#", "0", "0", "0", "0", "0", "0">>)
        bg0 == Or(widget.bg, <<"#", "F", "F", "F", "F", "F", "F">>)
        \* color_map is bound only inside the first "if"
        color_map_bound == ~startswith(fg0, "#")
        fg == IF ~startswith(fg0, "#")
              THEN get(color_map, lower(fg0), <<"#", "0", "0", "0", "0", "0", "0">>)
              ELSE fg0
    IN  IF ~startswith(bg0, "#") /\ ~color_map_bound
        THEN Raise("UnboundLocalError")
        ELSE Analysis(fg, IF ~startswith(bg0, "#")
                          THEN get(color_map, lower(bg0), <<"#", "F", "F", "F", "F", "F", "F">>)
                          ELSE bg0)

(***************************************************************************)
(* Arguments the contrast functions are called with.                       *)
(***************************************************************************)
\* longest colour string given to hex_to_rgb, in pairs of characters
MaxHexPairs == 4

HexPairs ==
    {<<"0", "0">>, <<"F", "F">>, <<"f", "f">>, <<"7", "6">>, <<"+", "F">>,
     <<"-", "F">>, <<" ", "A">>, <<"Z", "Z">>, <<"0", "x">>}

RECURSIVE Flatten(_)
Flatten(pairs) ==
    IF Len(pairs) = 0 THEN <<>> ELSE Head(pairs) \o Flatten(Tail(pairs))

HexInputs ==
    {prefix \o Flatten(pairs) :
        prefix \in {<<>>, <<"#">>, <<"#", "#">>},
        pairs \in UNION {[1..n -> HexPairs] : n \in 0..MaxHexPairs}}

ColorStrings ==
    {<<"#", "0", "0", "0", "0", "0", "0">>,
     <<"#", "F", "F", "F", "F", "F", "F">>,
     <<"#", "7", "6", "7", "6", "7", "6">>,
     <<"#", "0", "E", "0", "E", "0", "E">>,
     <<"#", "7", "A", "7", "A", "7", "A">>,
     <<"#", "2", "4", "2", "4", "2", "4">>,
     <<"#", "A", "E", "A", "E", "A", "E">>,
     <<"#", "0", "D", "0", "D", "0", "D">>,
     <<"#", "5", "E", "5", "E", "5", "E">>,
     <<"#", "0", "0", "6", "6", "C", "C">>,
     <<"-", "F", "-", "F", "-", "F">>,
     <<"Z", "Z", "Z", "Z", "Z", "Z">>}

ColorTuples ==
    {<<0, 0, 0>>, <<255, 255, 255>>, <<118, 118, 118>>, <<255, 0, 0>>,
     <<0, 102, 204>>}

Colors ==
    {StrColor(c) : c \in ColorStrings} \cup {TupleColor(t) : t \in ColorTuples}

Levels == {<<"A", "A">>, <<"A", "A", "A">>, <<"a", "a", "a">>}

\* what cget returns: "", hex strings, colour names
WidgetColors ==
    {<<>>,
     <<"#", "0", "0", "0", "0", "0", "0">>,
     <<"#", "F", "F", "F", "F", "F", "F">>,
     <<"#", "7", "6", "7", "6", "7", "6">>,
     <<"#", "0", "E", "0", "E", "0", "E">>,
     <<"#", "7", "A", "7", "A", "7", "A">>,
     <<"#", "1", "2">>,
     <<"r", "e", "d">>,
     <<"W", "h", "i", "t", "e">>,
     <<"n", "a", "v", "y">>,
     <<"S", "y", "s", "t", "e", "m", "W", "i", "n", "d", "o", "w">>}

Widgets ==
    {[colored |-> TRUE, fg |-> f, bg |-> b] : f, b \in WidgetColors}
        \cup {[colored |-> FALSE, fg |-> <<>>, bg |-> <<>>]}

\* ratios given to get_contrast_grade, in hundredths
GradedRatios ==
    {[num |-> h, den |-> 100] :
        h \in {100, 299, 300, 449, 450, 454, 699, 700, 2100}}

(***************************************************************************)
(* One call of a contrast function per step; the functions keep no state.  *)
(***************************************************************************)
Invoke_hex_to_rgb ==
    /\ call.op = "none"
    /\ \E hex_color \in HexInputs :
        /\ call' = [op |-> "hex_to_rgb", hex_color |-> hex_color]
        /\ ret' = hex_to_rgb(hex_color)
    /\ UNCHANGED linter_vars

Invoke_calculate_contrast_ratio ==
    /\ call.op = "none"
    /\ \E color1, color2 \in Colors :
        /\ call' = [op |-> "calculate_contrast_ratio",
                    color1 |-> color1, color2 |-> color2]
        /\ ret' = calculate_contrast_ratio(color1, color2)
    /\ UNCHANGED linter_vars

Invoke_check_wcag_contrast ==
    /\ call.op = "none"
    /\ \E foreground, background \in Colors, large_text \in BOOLEAN,
          level \in Levels :
        /\ call' = [op |-> "check_wcag_contrast",
                    foreground |-> foreground, background |-> background,
                    large_text |-> large_text, level |-> level]
        /\ ret' = check_wcag_contrast(foreground, background, large_text,
                                      level)
    /\ UNCHANGED linter_vars

Invoke_get_contrast_grade ==
    /\ call.op = "none"
    /\ \E contrast_ratio \in GradedRatios, large_text \in BOOLEAN :
        /\ call' = [op |-> "get_contrast_grade",
                    contrast_ratio |-> contrast_ratio,
                    large_text |-> large_text]
        /\ ret' = [raised |-> "none",
                   grade |-> get_contrast_grade(contrast_ratio, large_text)]
    /\ UNCHANGED linter_vars

Invoke_analyze_widget_colors ==
    /\ call.op = "none"
    /\ \E widget \in Widgets :
        /\ call' = [op |-> "analyze_widget_colors", widget |-> widget]
        /\ ret' = analyze_widget_colors(widget)
    /\ UNCHANGED linter_vars

\* the caller has taken the result
Returned ==
    /\ call.op # "none"
    /\ call' = [op |-> "none"]
    /\ ret' = [raised |-> "none"]
    /\ UNCHANGED linter_vars

NextColor ==
    \/ Returned
    \/ Invoke_hex_to_rgb
    \/ Invoke_calculate_contrast_ratio
    \/ Invoke_check_wcag_contrast
    \/ Invoke_get_contrast_grade
    \/ Invoke_analyze_widget_colors

SpecColor == Init /\ [][NextColor]_vars

(***************************************************************************)
(* Properties of the rule engine.                                          *)
(***************************************************************************)
\* visit_call has been invoked on the call of the statement being walked
Visited == site # NoNode

\* the site is a classified construction site of a widget type in ws
SiteOf(ws) ==
    /\ Visited
    /\ _is_tkinter_widget_call(site)
    /\ _get_widget_name(site) \in ws

\* the codes of the diagnostics of the site, in emission order
Codes == [i \in 1..Len(messages) |-> messages[i].msgid]

HasCode(msgid) == \E i \in 1..Len(messages) : messages[i].msgid = msgid

SiteHasKeyword(a) == \E i \in 1..Len(site.keywords) : site.keywords[i].arg = a

\* keyword text of the site is a literal string containing '&'
SiteTextIsMarkedLiteral ==
    \E i \in 1..Len(site.keywords) :
        /\ site.keywords[i].arg = "text"
        /\ site.keywords[i].value.type = "Const"
        /\ site.keywords[i].value.pytype = "str"
        /\ \E j \in 1..Len(site.keywords[i].value.value) :
              site.keywords[i].value.value[j] = "&"

\* C1: every classified Tk or Toplevel call yields exactly one
\* missing-window-title diagnostic and nothing else, in every state of the
\* created/titled sets.
C1_WindowCallAlwaysFlagged ==
    SiteOf({"Tk", "Toplevel"})
        => messages = <<Message("missing-window-title", <<>>)>>

\* a window call flagged although every window variable is already titled
C1_Witness ==
    /\ SiteOf({"Tk", "Toplevel"})
    /\ titled_windows = WindowVars
    /\ Codes = <<"missing-window-title">>

\* C2: in a file in which no toolkit import has been walked, the tracker
\* holds no binding and no window state, and no call yields a diagnostic.
C2_StateResetPerFile ==
    ~file.toolkit_imported
        => /\ tkinter_imports = {}
           /\ created_windows = {}
           /\ titled_windows = {}
           /\ messages = <<>>

\* names the import statements bind to the toolkit module / to its symbols
ModuleBindings ==
    UNION {ImportBindings(st) : st \in {x \in ImportStatements :
                                           x.type = "Import"}}

SymbolBindings ==
    UNION {ImportFromBindings(st) : st \in {x \in ImportStatements :
                                               x.type = "ImportFrom"}}

\* C3: a call yields diagnostics only as X.W(...) with X a recorded
\* module-binding or as W(...) with W a recorded symbol-binding.
C3_OnlyTwoShapesClassified ==
    (Visited /\ messages # <<>>)
        => \/ /\ site.func.type = "Attribute"
              /\ site.func.expr.type = "Name"
              /\ site.func.expr.name \in tkinter_imports \cap ModuleBindings
           \/ /\ site.func.type = "Name"
              /\ site.func.name \in tkinter_imports \cap SymbolBindings

C5_NoKeywordSite ==
    (/\ Visited
     /\ _is_tkinter_widget_call(site)
     /\ _get_widget_name(site) \notin {"Tk", "Toplevel"}
     /\ site.keywords = <<>>)
        => LET w == _get_widget_name(site)
           IN  messages =
                 (IF w \in {"Button", "Label", "Checkbutton", "Radiobutton",
                            "Menubutton"}
                  THEN <<Message("missing-text-attribute", <<w>>)>>
                  ELSE <<>>)
                 \o
                 (IF w \in {"Button", "Entry", "Text", "Listbox", "Scrollbar",
                            "Scale", "Checkbutton", "Radiobutton",
                            "Menubutton", "Canvas"}
                  THEN <<Message("missing-tab-index", <<w>>)>>
                  ELSE <<>>)

\* Button() by direct import: the two diagnostics, in this order
C5_Witness ==
    /\ site = Call(Name("Button"), <<>>)
    /\ Codes = <<"missing-text-attribute", "missing-tab-index">>

\* C6: after "from tkinter import Button as B", the site B() has the
\* canonical type Button and gets the diagnostics of Button().
C6_AliasResolvesToCanonical ==
    (/\ Visited
     /\ site = Call(Name("B"), <<>>)
     /\ "B" \in tkinter_imports)
        => messages = <<Message("missing-text-attribute", <<"Button">>),
                        Message("missing-tab-index", <<"Button">>)>>

\* C11: a classified Label site gets missing-mnemonic-underline, once,
\* exactly when keyword text is a literal string containing '&' and keyword
\* underline is absent; a text that is not a literal string (variable,
\* f-string, concatenation) never gets it.
C11_MnemonicExactly ==
    SiteOf({"Label"})
        => /\ Len(SelectSeq(Codes,
                            LAMBDA c : c = "missing-mnemonic-underline"))
                = IF SiteTextIsMarkedLiteral /\ ~SiteHasKeyword("underline")
                  THEN 1 ELSE 0
           /\ (\E i \in 1..Len(site.keywords) :
                  /\ site.keywords[i].arg = "text"
                  /\ site.keywords[i].value.type
                        \in {"Name", "JoinedStr", "BinOp"})
                 => ~HasCode("missing-mnemonic-underline")

\* Label(text="&OK") is flagged, with the widget name as argument
C11_Witness ==
    /\ SiteOf({"Label"})
    /\ site.keywords = <<Keyword("text", AmpersandText)>>
    /\ messages = <<Message("missing-mnemonic-underline", <<"Label">>)>>

\* Label(text=f"&{caption}") is classified and not flagged
C11_FStringWitness ==
    /\ SiteOf({"Label"})
    /\ site.keywords = <<Keyword("text", FStringText)>>
    /\ messages = <<>>

\* the Attribute node being visited is the callee of the call of the
\* statement, with a simple name as receiver: name.title(...)
AtTitleCallOn(name) ==
    /\ todo # <<>>
    /\ Head(todo) = Attribute(Name(name), "title")
    /\ site.type = "Call"
    /\ site.func = Head(todo)

\* the Assign node being visited binds a classified Tk/Toplevel call to name
AtWindowAssignmentTo(name) ==
    /\ todo # <<>>
    /\ Head(todo).type = "Assign"
    /\ Head(todo).targets = <<AssignName(name)>>
    /\ Head(todo).value.type = "Call"
    /\ _is_tkinter_widget_call(Head(todo).value)
    /\ _get_widget_name(Head(todo).value) \in {"Tk", "Toplevel"}

C12_TitledSubsetOfCreated == titled_windows \subseteq created_windows

C12_CreatedOnlyAtWindowAssignment ==
    [][\A name \in created_windows' \ created_windows :
          AtWindowAssignmentTo(name)]_vars

C12_TitledOnlyAtTitleCall ==
    [][\A name \in titled_windows' \ titled_windows :
          AtTitleCallOn(name) /\ name \in created_windows]_vars

C12_TitledNeverRemoved ==
    [][titled_windows \subseteq titled_windows']_vars

\* C12: titled is always a subset of created; a name enters created only at
\* an assignment of a classified Tk/Toplevel construction to a simple name,
\* and enters titled only at a call name.title(...) whose receiver is a
\* simple name already in created; a titled name is never un-titled, also
\* when the name is assigned again.
C12_WindowStateTransitions ==
    /\ []C12_TitledSubsetOfCreated
    /\ C12_CreatedOnlyAtWindowAssignment
    /\ C12_TitledOnlyAtTitleCall
    /\ C12_TitledNeverRemoved

\* number of diagnostics of the site with the code msgid
CountOf(msgid) == Cardinality({i \in 1..Len(messages) : messages[i].msgid = msgid})

AllCodes ==
    {"missing-text-attribute", "missing-tab-index",
     "missing-keyboard-accelerator", "missing-window-title",
     "missing-mnemonic-underline"}

\* C13: a construction site yields at most two diagnostics and no code
\* twice; missing-text-attribute never comes with
\* missing-keyboard-accelerator or with missing-mnemonic-underline, and
\* missing-window-title never comes with another code.
C13_AtMostTwoAndExclusive ==
    Visited
        => /\ Len(messages) <= 2
           /\ \A msgid \in AllCodes : CountOf(msgid) <= 1
           /\ \A i \in 1..Len(messages) : messages[i].msgid \in AllCodes
           /\ HasCode("missing-text-attribute")
                 => /\ ~HasCode("missing-keyboard-accelerator")
                    /\ ~HasCode("missing-mnemonic-underline")
           /\ HasCode("missing-window-title") => Len(messages) = 1

\* Button(text="OK"): two diagnostics, none of them missing-text-attribute
C13_Witness ==
    /\ SiteOf({"Button"})
    /\ site.keywords = <<Keyword("text", PlainText)>>
    /\ Codes = <<"missing-tab-index", "missing-keyboard-accelerator">>

(***************************************************************************)
(* Properties of the contrast functions.                                   *)
(***************************************************************************)
\* the unrounded ratio of the colours of a check_wcag_contrast call
CalledRatio ==
    calculate_contrast_ratio(call.foreground, call.background).ratio

CalledForAAA ==
    call.level \in {<<"A", "A", "A">>, <<"a", "a", "a">>}

\* C7: check_wcag_contrast compares the unrounded ratio with 4.5 / 3.0 (AA)
\* and 7.0 / 4.5 (AAA); required_ratio and meets_requirement are those of
\* the requested level; only contrast_ratio is rounded to 2 decimals;
\* level_tested (in upper case) and text_size reflect the request.
C7_ThresholdsOnUnroundedRatio ==
    (call.op = "check_wcag_contrast" /\ ret.raised = "none")
        => LET aa == IF call.large_text THEN 30 ELSE 45
               aaa == IF call.large_text THEN 45 ELSE 70
               r == ret.result
           IN  /\ r.passes_aa = (10 * CalledRatio.num >= aa * CalledRatio.den)
               /\ r.passes_aaa = (10 * CalledRatio.num >= aaa * CalledRatio.den)
               /\ r.required_ratio = IF CalledForAAA THEN aaa ELSE aa
               /\ r.meets_requirement =
                     IF CalledForAAA THEN r.passes_aaa ELSE r.passes_aa
               /\ r.contrast_ratio.den = 100
               /\ 2 * CalledRatio.den * r.contrast_ratio.num
                     <= 200 * CalledRatio.num + CalledRatio.den
               /\ 2 * CalledRatio.den * (r.contrast_ratio.num + 1)
                     > 200 * CalledRatio.num + CalledRatio.den
               /\ r.level_tested =
                     IF CalledForAAA THEN <<"A", "A", "A">> ELSE <<"A", "A">>
               /\ r.text_size = IF call.large_text THEN "large" ELSE "normal"

\* #0E0E0E on #7A7A7A: the ratio 4.497 is reported as 4.50 and fails AA
C7_Witness ==
    /\ call.op = "check_wcag_contrast"
    /\ call.foreground = StrColor(<<"#", "0", "E", "0", "E", "0", "E">>)
    /\ call.background = StrColor(<<"#", "7", "A", "7", "A", "7", "A">>)
    /\ ~call.large_text
    /\ ret.raised = "none"
    /\ ret.result.contrast_ratio = [num |-> 450, den |-> 100]
    /\ ~ret.result.passes_aa
    /\ ~ret.result.meets_requirement

\* C8: every ratio calculate_contrast_ratio returns is at least 1.0 and at
\* most 21.0.
C8_RatioBetween1And21 ==
    (call.op = "calculate_contrast_ratio" /\ ret.raised = "none")
        => /\ ret.ratio.num >= ret.ratio.den
           /\ ret.ratio.num <= 21 * ret.ratio.den

ClaimedHexDigits ==
    {"0", "1", "2", "3", "4", "5", "6", "7", "8", "9",
     "a", "b", "c", "d", "e", "f", "A", "B", "C", "D", "E", "F"}

\* C9: hex_to_rgb strips one optional leading '#'; it returns three channels
\* in 0..255 if the rest is exactly 6 hexadecimal digits and fails with the
\* invalid-color error for every other input.
C9_OnlySixHexDigitsAccepted ==
    call.op = "hex_to_rgb"
        => LET rest == IF Len(call.hex_color) > 0 /\ call.hex_color[1] = "#"
                       THEN Tail(call.hex_color)
                       ELSE call.hex_color
               valid == /\ Len(rest) = 6
                        /\ \A i \in 1..Len(rest) : rest[i] \in ClaimedHexDigits
           IN  IF valid
               THEN /\ ret.raised = "none"
                    /\ \A i \in 1..3 : ret.rgb[i] \in 0..255
               ELSE ret.raised = "ValueError"

\* a colour that is neither a hex string nor a key of the lookup table
Unrecognized(color) ==
    /\ color # <<>>
    /\ color[1] # "#"
    /\ \A item \in color_map : item[1] # color /\ item[1] # lower(color)

\* C10: a colour name that is neither hex nor in the lookup table resolves
\* to black as foreground and to white as background, and the analysis does
\* not fail, for every combination of foreground and background forms.
C10_UnrecognizedNameDefaults ==
    (/\ call.op = "analyze_widget_colors"
     /\ call.widget.colored
     /\ Unrecognized(call.widget.fg) \/ Unrecognized(call.widget.bg))
        => /\ ret.raised \in {"none", "ValueError"}
           /\ ret.raised = "none" =>
                /\ Unrecognized(call.widget.fg)
                      => ret.fg = <<"#", "0", "0", "0", "0", "0", "0">>
                /\ Unrecognized(call.widget.bg)
                      => ret.bg = <<"#", "F", "F", "F", "F", "F", "F">>

\* the grade of the ratio a check_wcag_contrast call reported, for the text
\* size of that call
ChainedGrade == get_contrast_grade(ret.result.contrast_ratio, call.large_text)

\* C14: get_contrast_grade applied to the contrast_ratio field reported by
\* check_wcag_contrast, with the same large_text, is "FAIL" exactly when
\* passes_aa is false and "AAA" exactly when passes_aaa is true; the same
\* holds for the grade and the result analyze_widget_colors computes.
C14_GradeAgreesWithVerdict ==
    /\ (call.op = "check_wcag_contrast" /\ ret.raised = "none")
          => /\ (ChainedGrade = "FAIL") <=> ~ret.result.passes_aa
             /\ (ChainedGrade = "AAA") <=> ret.result.passes_aaa
    /\ (/\ call.op = "analyze_widget_colors"
        /\ ret.raised = "none"
        /\ ret.analysed)
          => /\ (ret.grade = "FAIL") <=> ~ret.result.passes_aa
             /\ (ret.grade = "AAA") <=> ret.result.passes_aaa

====
